---- MODULE Spec2Model ----
(***************************************************************************)
(* Model of src/modal_aitoolkit_ui.py: the workspace reconciliation done   *)
(* by ui_server() before it launches the UI server, and the download_files *)
(* helper.  The file system is modelled by the kind of object found at     *)
(* each path the code touches; every subprocess / os call of ui_server is  *)
(* one step, so that two replicas sharing the volume can interleave.       *)
(***************************************************************************)
EXTENDS Naturals, FiniteSets, Sequences, TLC

\* ------------------------------------------------------------------ bounds
\* How many times ui_server may run in one container (first run + re-runs).
MaxRuns == 3
\* How many download_files calls are explored.
MaxDownloads == 2

\* ------------------------------------------------------------ vocabulary
Replicas == {"r1", "r2"}

\* Kinds of object at a local path that is meant to become a link.
\* "dirlink" is a real directory that holds a link named like the target's
\* basename (what `ln -sf TARGET DIR` leaves behind).
Kinds == {"absent", "file", "dir", "dirlink", "link"}

\* Content of a database file.  "image": built into the image (line 38);
\* "fresh": written by the runtime `prisma db push`; "user": a durable
\* database that already holds data of earlier boots.
Contents == {"image", "fresh", "user"}

\* The sub-directories of /mnt/output the code creates.
OutputSubdirs == {"datasets", "jobs", "models"}
db_dir == "database"

\* Objects whose mode `chmod -R 777` can change.
PermObjects == {"output", "cache", "database", "dev.db"}

\* Classes of command that can fail in a run.
FailureClasses == {"rm", "chmod", "init", "cp", "ln"}

\* The statements of ui_server, in program order.
Steps == << "rmOut", "rmCache", "lnOut", "lnCache",
            "mkDatasets", "mkJobs", "mkModels", "mkCache",
            "chmodOut", "chmodCache",
            "mkDbDir", "rmDb", "rmJournal", "checkDb", "initDb", "cpDb",
            "lnDb", "launch" >>

StepNames == {Steps[i] : i \in 1..Len(Steps)}

StepIndex(s) == CHOOSE i \in 1..Len(Steps) : Steps[i] = s

\* A run at step s has already executed step t.
Executed(s, t) == StepIndex(t) < StepIndex(s)

VARIABLES
  active,        \* replicas (containers) that run ui_server
  pc,            \* pc[r]: the statement replica r executes next
  status,        \* status[r]: "running", "aborted" (CalledProcessError), "done"
  runs,          \* runs[r]: number of runs of ui_server started by r
  failed,        \* failed[r]: classes of command that failed in this run
  linked,        \* linked[r]: the `ln` commands that returned 0 in this run
  launched,      \* launched[r]: Popen(npm run start) calls in this run
  initVia,       \* initVia[r]: how prisma db push ran in this run (see InitVias)
  ranCopy,       \* ranCopy[r]: cp into the volume was executed in this run
  copied,        \* copied[r]: cp into the volume returned 0 in this run
  startDb,       \* startDb[r]: durable database content when this run started
  startMnt,      \* startMnt[r]: the mount paths and directories when this run started
  prevFs,        \* prevFs[r]: << layout >> left by r's previous run when every
                 \* command of that run succeeded, << >> otherwise
  locOut,        \* locOut[r]: kind of /root/ai-toolkit/output
  locCache,      \* locCache[r]: kind of /root/.cache
  locDb,         \* locDb[r]: kind of /root/ai-toolkit/ui/prisma/dev.db
  locDbData,     \* locDbData[r]: content of that path when it is a real file
  locJournal,    \* locJournal[r]: /root/ai-toolkit/ui/prisma/dev.db-journal exists
  mntOut,        \* /mnt/output exists
  mntCache,      \* /mnt/cache exists
  outDirs,       \* sub-directories of /mnt/output that exist
  outNested,     \* /mnt/output/output is a link to /mnt/output
  cacheNested,   \* /mnt/cache/cache is a link to /mnt/cache
  perm777,       \* objects of the volumes whose mode is 777
  volDb,         \* content of /mnt/output/database/dev.db, "none" when absent
  dbWriters,     \* replicas whose commands have written the durable database
  dbLinkedBy,    \* replicas whose local path links to the durable database
  overwroteLinked, \* a copy replaced a durable database another replica had linked
  dlCalls,       \* number of download_files calls made
  dlReq,         \* remote_path of the last download_files call
  dlResult,      \* outcome of the last download_files call
  dlDst,         \* kind of local_path
  dlDstParent,   \* the parent directory of local_path exists
  dlDstData      \* what local_path holds

ctlVars == << pc, status, failed >>
histVars == << linked, launched, initVia, ranCopy, copied >>
startVars == << runs, startDb, startMnt, prevFs >>
runVars == << ctlVars, histVars, startVars >>
locVars == << locOut, locCache, locDb, locDbData, locJournal >>
volVars == << mntOut, mntCache, outDirs, outNested, cacheNested, perm777, volDb >>
raceVars == << dbWriters, dbLinkedBy, overwroteLinked >>
dlVars == << dlCalls, dlReq, dlResult, dlDst, dlDstParent, dlDstData >>
vars == << active, runVars, locVars, volVars, raceVars, dlVars >>

\* ------------------------------------------------------- shell commands
\* `rm -rf PATH` (lines 74, 75, 92, 93): exit 0 leaves nothing at PATH, a
\* failure leaves what was there.  With -f an absent PATH is no failure.
RmOutcomes(kind) == IF kind = "absent" THEN {TRUE} ELSE BOOLEAN

\* Mutant: the stale path is not removed.
RmRfSkipped(kind, ok) == kind

RmRf(kind, ok) == IF ok THEN "absent" ELSE kind

\* `ln -sf TARGET PATH` (lines 76, 77, 107): what is at PATH afterwards.
\* A real directory at PATH is not replaced: the link is made inside it.
\* A link at PATH that resolves to a directory is followed in the same way
\* (see LnIntoTarget) and stays.  Anything else is replaced by the link.
LnSf(kind) ==
  CASE kind \in {"absent", "file", "link"} -> "link"
    [] kind \in {"dir", "dirlink"} -> "dirlink"

\* `ln -sf TARGET PATH` with PATH a link to the existing directory TARGET:
\* the new link is TARGET/basename(TARGET).
LnIntoTarget(kind, targetIsDir) == kind = "link" /\ targetIsDir

\* subprocess.run(..., check=True): a non-zero exit raises CalledProcessError,
\* which ends ui_server.
\* Mutant: the exit status of a checked command is ignored.
CheckedRunIgnored(ok) == "running"

CheckedRun(ok) == IF ok THEN "running" ELSE "aborted"

\* Mutant: a tolerated command is run with check=True.
UncheckedRunRaises(ok) == IF ok THEN "running" ELSE "aborted"

\* subprocess.run(..., check=False): the exit status is ignored.
UncheckedRun(ok) == "running"

\* `if not os.path.exists(f"{db_dir}/dev.db")` (line 96).
\* Mutant: the existence test is dropped, every run initialises.
NeedsInitAlways(vol) == TRUE

NeedsInit(vol) == vol = "none"

\* `cp LOCAL VOLUME` (lines 102-104) can only succeed when LOCAL is a real
\* file: an absent source fails, and a link to the destination is the same
\* file as the destination, which cp refuses.
CpOutcomes(kind) == IF kind = "file" THEN BOOLEAN ELSE {FALSE}

\* Mutant: `cp -n`, an existing destination is not overwritten.
CpNoClobber(data, vol, ok) == IF ok /\ vol = "none" THEN data ELSE vol

\* Mutant: the copy reports success but the destination is not written.
CpNoWrite(data, vol, ok) == vol

\* The durable database after `cp`.
Cp(data, vol, ok) == IF ok THEN data ELSE vol

\* `npx prisma db push` (lines 98-100) when it succeeds: the local database
\* file afterwards.  An absent file is created, an existing one is kept.
InitLocal(kind, data) ==
  IF kind = "absent" THEN << "file", "fresh" >> ELSE << kind, data >>

\* The same command run while the local path is a link to the durable file:
\* the database is opened through the link.
InitThroughLink(vol) == IF vol = "none" THEN "fresh" ELSE vol

InitVias == {"none", "local", "link", "wrote"}

\* `chmod -R 777 /mnt/output`: every object under the mount that exists.
ChmodOutput(dirs, vol) ==
  {"output"} \cup (IF db_dir \in dirs THEN {"database"} ELSE {})
             \cup (IF vol # "none" THEN {"dev.db"} ELSE {})

\* The layout the reconciler leaves: directories, links and the durable
\* database content as replica r sees them.
Layout(r) ==
  [ locOut |-> locOut[r], locCache |-> locCache[r], locDb |-> locDb[r],
    locDbData |-> locDbData[r], locJournal |-> locJournal[r],
    mntOut |-> mntOut, mntCache |-> mntCache, outDirs |-> outDirs,
    outNested |-> outNested, cacheNested |-> cacheNested, volDb |-> volDb ]

\* The mount paths and the directories under /mnt/output.
Mounts == [mntOut |-> mntOut, mntCache |-> mntCache, outDirs |-> outDirs]

\* ------------------------------------------------------------- control
Proceed(r, class, ok, st, next) ==
  /\ failed' = [failed EXCEPT ![r] = IF ok THEN @ ELSE @ \cup {class}]
  /\ status' = [status EXCEPT ![r] = st]
  /\ pc' = [pc EXCEPT ![r] = IF st = "running" THEN next ELSE @]

At(r, s) == r \in active /\ status[r] = "running" /\ pc[r] = s

\* ------------------------------------------------------------ ui_server
\* line 74
RmOutput(r) ==
  /\ At(r, "rmOut")
  /\ \E ok \in RmOutcomes(locOut[r]) :
       /\ locOut' = [locOut EXCEPT ![r] = RmRf(@, ok)]
       /\ Proceed(r, "rm", ok, UncheckedRun(ok), "rmCache")
  /\ UNCHANGED << active, histVars, startVars, locCache, locDb, locDbData,
                  locJournal, volVars, raceVars, dlVars >>

\* line 75
RmCache(r) ==
  /\ At(r, "rmCache")
  /\ \E ok \in RmOutcomes(locCache[r]) :
       /\ locCache' = [locCache EXCEPT ![r] = RmRf(@, ok)]
       /\ Proceed(r, "rm", ok, UncheckedRun(ok), "lnOut")
  /\ UNCHANGED << active, histVars, startVars, locOut, locDb, locDbData,
                  locJournal, volVars, raceVars, dlVars >>

\* line 76
LnOutput(r) ==
  /\ At(r, "lnOut")
  /\ \E ok \in BOOLEAN :
       /\ locOut' = [locOut EXCEPT ![r] = IF ok THEN LnSf(@) ELSE @]
       /\ outNested' = (outNested \/ (ok /\ LnIntoTarget(locOut[r], mntOut)))
       /\ linked' = [linked EXCEPT ![r] = IF ok THEN @ \cup {"out"} ELSE @]
       /\ Proceed(r, "ln", ok, CheckedRun(ok), "lnCache")
  /\ UNCHANGED << active, launched, initVia, ranCopy, copied, startVars,
                  locCache, locDb, locDbData, locJournal,
                  mntOut, mntCache, outDirs, cacheNested, perm777, volDb,
                  raceVars, dlVars >>

\* line 77
LnCache(r) ==
  /\ At(r, "lnCache")
  /\ \E ok \in BOOLEAN :
       /\ locCache' = [locCache EXCEPT ![r] = IF ok THEN LnSf(@) ELSE @]
       /\ cacheNested' = (cacheNested \/ (ok /\ LnIntoTarget(locCache[r], mntCache)))
       /\ linked' = [linked EXCEPT ![r] = IF ok THEN @ \cup {"cache"} ELSE @]
       /\ Proceed(r, "ln", ok, CheckedRun(ok), "mkDatasets")
  /\ UNCHANGED << active, launched, initVia, ranCopy, copied, startVars,
                  locOut, locDb, locDbData, locJournal,
                  mntOut, mntCache, outDirs, outNested, perm777, volDb,
                  raceVars, dlVars >>

\* os.makedirs(f"/mnt/output/{d}", exist_ok=True): creates the missing
\* parents too, and is a no-op on what exists.
MakeOutputDir(r, s, d, next) ==
  /\ At(r, s)
  /\ mntOut' = TRUE
  /\ outDirs' = outDirs \cup {d}
  /\ Proceed(r, "none", TRUE, "running", next)
  /\ UNCHANGED << active, histVars, startVars, locVars, mntCache, outNested,
                  cacheNested, perm777, volDb, raceVars, dlVars >>

\* line 80
MkDatasets(r) == MakeOutputDir(r, "mkDatasets", "datasets", "mkJobs")
\* line 81
MkJobs(r) == MakeOutputDir(r, "mkJobs", "jobs", "mkModels")
\* line 82
MkModels(r) == MakeOutputDir(r, "mkModels", "models", "mkCache")

\* line 83
MkCache(r) ==
  /\ At(r, "mkCache")
  /\ mntCache' = TRUE
  /\ Proceed(r, "none", TRUE, "running", "chmodOut")
  /\ UNCHANGED << active, histVars, startVars, locVars, mntOut, outDirs,
                  outNested, cacheNested, perm777, volDb, raceVars, dlVars >>

\* line 86
ChmodOut(r) ==
  /\ At(r, "chmodOut")
  /\ \E ok \in BOOLEAN :
       /\ perm777' = IF ok THEN perm777 \cup ChmodOutput(outDirs, volDb)
                           ELSE perm777
       /\ Proceed(r, "chmod", ok, UncheckedRun(ok), "chmodCache")
  /\ UNCHANGED << active, histVars, startVars, locVars, mntOut, mntCache,
                  outDirs, outNested, cacheNested, volDb, raceVars, dlVars >>

\* line 87
ChmodCache(r) ==
  /\ At(r, "chmodCache")
  /\ \E ok \in BOOLEAN :
       /\ perm777' = IF ok THEN perm777 \cup {"cache"} ELSE perm777
       /\ Proceed(r, "chmod", ok, UncheckedRun(ok), "mkDbDir")
  /\ UNCHANGED << active, histVars, startVars, locVars, mntOut, mntCache,
                  outDirs, outNested, cacheNested, volDb, raceVars, dlVars >>

\* lines 90-91
MkDbDir(r) == MakeOutputDir(r, "mkDbDir", db_dir, "rmDb")

\* line 92
RmDb(r) ==
  /\ At(r, "rmDb")
  /\ \E ok \in RmOutcomes(locDb[r]) :
       /\ locDb' = [locDb EXCEPT ![r] = RmRf(@, ok)]
       /\ locDbData' = [locDbData EXCEPT ![r] = IF ok THEN "none" ELSE @]
       /\ dbLinkedBy' = IF ok THEN dbLinkedBy \ {r} ELSE dbLinkedBy
       /\ Proceed(r, "rm", ok, UncheckedRun(ok), "rmJournal")
  /\ UNCHANGED << active, histVars, startVars, locOut, locCache, locJournal,
                  volVars, dbWriters, overwroteLinked, dlVars >>

\* line 93
RmJournal(r) ==
  /\ At(r, "rmJournal")
  /\ \E ok \in (IF locJournal[r] THEN BOOLEAN ELSE {TRUE}) :
       /\ locJournal' = [locJournal EXCEPT ![r] = IF ok THEN FALSE ELSE @]
       /\ Proceed(r, "rm", ok, UncheckedRun(ok), "checkDb")
  /\ UNCHANGED << active, histVars, startVars, locOut, locCache, locDb,
                  locDbData, volVars, raceVars, dlVars >>

\* line 96
CheckDb(r) ==
  /\ At(r, "checkDb")
  /\ Proceed(r, "none", TRUE, "running",
             IF NeedsInit(volDb) THEN "initDb" ELSE "lnDb")
  /\ UNCHANGED << active, histVars, startVars, locVars, volVars, raceVars,
                  dlVars >>

\* lines 97-100
InitDb(r) ==
  /\ At(r, "initDb")
  /\ \E ok \in BOOLEAN :
       /\ IF ok /\ locDb[r] = "link"
            THEN /\ volDb' = InitThroughLink(volDb)
                 /\ dbWriters' = IF volDb = "none" THEN dbWriters \cup {r}
                                                   ELSE dbWriters
                 /\ UNCHANGED << locDb, locDbData >>
            ELSE /\ locDb' = [locDb EXCEPT ![r] =
                                IF ok THEN InitLocal(@, locDbData[r])[1] ELSE @]
                 /\ locDbData' = [locDbData EXCEPT ![r] =
                                IF ok THEN InitLocal(locDb[r], @)[2] ELSE @]
                 /\ UNCHANGED << volDb, dbWriters >>
       /\ initVia' = [initVia EXCEPT ![r] =
                        IF locDb[r] # "link" THEN "local"
                        ELSE IF ok /\ volDb = "none" THEN "wrote" ELSE "link"]
       /\ Proceed(r, "init", ok, UncheckedRun(ok), "cpDb")
  /\ UNCHANGED << active, linked, launched, ranCopy, copied, startVars,
                  locOut, locCache, locJournal, mntOut, mntCache, outDirs,
                  outNested, cacheNested, perm777, dbLinkedBy,
                  overwroteLinked, dlVars >>

\* lines 101-104
CpDb(r) ==
  /\ At(r, "cpDb")
  /\ \E ok \in CpOutcomes(locDb[r]) :
       /\ volDb' = Cp(locDbData[r], volDb, ok)
       /\ ranCopy' = [ranCopy EXCEPT ![r] = TRUE]
       /\ copied' = [copied EXCEPT ![r] = ok]
       /\ dbWriters' = IF ok THEN dbWriters \cup {r} ELSE dbWriters
       /\ overwroteLinked' =
            (overwroteLinked \/ (ok /\ volDb # "none" /\ dbLinkedBy \ {r} # {}))
       /\ Proceed(r, "cp", ok, UncheckedRun(ok), "lnDb")
  /\ UNCHANGED << active, linked, launched, initVia, startVars, locVars,
                  mntOut, mntCache, outDirs, outNested, cacheNested, perm777,
                  dbLinkedBy, dlVars >>

\* Mutant: the database link is made with check=False like the other
\* database commands.
LnDbUnchecked(r) ==
  /\ At(r, "lnDb")
  /\ \E ok \in BOOLEAN :
       /\ locDb' = [locDb EXCEPT ![r] = IF ok THEN LnSf(@) ELSE @]
       /\ locDbData' = [locDbData EXCEPT ![r] = IF ok THEN "none" ELSE @]
       /\ linked' = [linked EXCEPT ![r] = IF ok THEN @ \cup {"db"} ELSE @]
       /\ dbLinkedBy' = IF ok THEN dbLinkedBy \cup {r} ELSE dbLinkedBy
       /\ Proceed(r, "ln", ok, UncheckedRun(ok), "launch")
  /\ UNCHANGED << active, launched, initVia, ranCopy, copied, startVars,
                  locOut, locCache, locJournal, volVars, dbWriters,
                  overwroteLinked, dlVars >>

\* lines 106-109
LnDb(r) ==
  /\ At(r, "lnDb")
  /\ \E ok \in BOOLEAN :
       /\ locDb' = [locDb EXCEPT ![r] = IF ok THEN LnSf(@) ELSE @]
       /\ locDbData' = [locDbData EXCEPT ![r] = IF ok THEN "none" ELSE @]
       /\ linked' = [linked EXCEPT ![r] = IF ok THEN @ \cup {"db"} ELSE @]
       /\ dbLinkedBy' = IF ok THEN dbLinkedBy \cup {r} ELSE dbLinkedBy
       /\ Proceed(r, "ln", ok, CheckedRun(ok), "launch")
  /\ UNCHANGED << active, launched, initVia, ranCopy, copied, startVars,
                  locOut, locCache, locJournal, volVars, dbWriters,
                  overwroteLinked, dlVars >>

\* lines 111-139: the environment is prepared and `npm run start` is started
\* with Popen; ui_server returns.
Launch(r) ==
  /\ At(r, "launch")
  /\ launched' = [launched EXCEPT ![r] = @ + 1]
  /\ status' = [status EXCEPT ![r] = "done"]
  /\ UNCHANGED << active, pc, failed, linked, initVia, ranCopy, copied,
                  startVars, locVars, volVars, raceVars, dlVars >>

\* ui_server is entered again in the same container (line 66): the per-run
\* bookkeeping starts over, the file system is what the last run left.
Rerun(r) ==
  /\ r \in active
  /\ status[r] \in {"done", "aborted"}
  /\ runs[r] < MaxRuns
  /\ runs' = [runs EXCEPT ![r] = @ + 1]
  /\ pc' = [pc EXCEPT ![r] = "rmOut"]
  /\ status' = [status EXCEPT ![r] = "running"]
  /\ failed' = [failed EXCEPT ![r] = {}]
  /\ linked' = [linked EXCEPT ![r] = {}]
  /\ launched' = [launched EXCEPT ![r] = 0]
  /\ initVia' = [initVia EXCEPT ![r] = "none"]
  /\ ranCopy' = [ranCopy EXCEPT ![r] = FALSE]
  /\ copied' = [copied EXCEPT ![r] = FALSE]
  /\ startDb' = [startDb EXCEPT ![r] = volDb]
  /\ startMnt' = [startMnt EXCEPT ![r] = Mounts]
  /\ prevFs' = [prevFs EXCEPT ![r] =
                  IF status[r] = "done" /\ failed[r] = {} THEN << Layout(r) >>
                                                          ELSE << >>]
  /\ UNCHANGED << active, locVars, volVars, raceVars, dlVars >>

ui_server(r) ==
  \/ RmOutput(r) \/ RmCache(r) \/ LnOutput(r) \/ LnCache(r)
  \/ MkDatasets(r) \/ MkJobs(r) \/ MkModels(r) \/ MkCache(r)
  \/ ChmodOut(r) \/ ChmodCache(r)
  \/ MkDbDir(r) \/ RmDb(r) \/ RmJournal(r) \/ CheckDb(r) \/ InitDb(r)
  \/ CpDb(r) \/ LnDb(r) \/ Launch(r)

\* ------------------------------------------------------- download_files
\* Remote paths asked for, relative to /mnt/output.
RemotePaths == {"datasets", "models", "database/dev.db"}

\* Path(f"/mnt/output/{remote_path}"): what is there (lines 159, 162, 165).
SrcKind(rp) ==
  IF rp = "database/dev.db"
    THEN (IF volDb # "none" THEN "file" ELSE "absent")
    ELSE (IF mntOut /\ rp \in outDirs THEN "dir" ELSE "absent")

\* lines 162-172: the outcome of download_files and what it leaves at
\* local_path, given the kind of the source.
\* Mutant: the parent directory is created before the existence test.
DownloadEffectMkdirFirst(src, srcData, dst, parent, data) ==
  IF src = "absent"
    THEN [result |-> "FileNotFoundError", dst |-> dst, parent |-> TRUE,
          data |-> data]
    ELSE [result |-> IF src = "dir" THEN "directory" ELSE "file",
          dst |-> IF src = "dir" \/ dst = "dir" THEN "dir" ELSE "file",
          parent |-> TRUE, data |-> IF src = "dir" THEN "tree" ELSE srcData]

DownloadEffect(src, srcData, dst, parent, data) ==
  CASE src = "absent" ->
         [result |-> "FileNotFoundError", dst |-> dst, parent |-> parent,
          data |-> data]
    [] src = "dir" /\ dst = "file" ->
         [result |-> "FileExistsError", dst |-> dst, parent |-> parent,
          data |-> data]
    [] src = "dir" /\ dst # "file" ->
         [result |-> "directory", dst |-> "dir", parent |-> TRUE,
          data |-> "tree"]
    [] src = "file" ->
         [result |-> "file", dst |-> IF dst = "dir" THEN "dir" ELSE "file",
          parent |-> TRUE, data |-> srcData]

download_files(rp) ==
  /\ dlCalls < MaxDownloads
  /\ LET e == DownloadEffect(SrcKind(rp), volDb, dlDst, dlDstParent, dlDstData)
     IN /\ dlResult' = e.result
        /\ dlDst' = e.dst
        /\ dlDstParent' = e.parent
        /\ dlDstData' = e.data
  /\ dlCalls' = dlCalls + 1
  /\ dlReq' = rp
  /\ UNCHANGED << active, runVars, locVars, volVars, raceVars >>

\* ------------------------------------------------------ specifications
StartKinds == {"absent", "dir", "link"}
StartDbKinds == {"absent", "file", "link"}
StartDirSets == {{}, OutputSubdirs \cup {db_dir}}

\* Per-run bookkeeping at the start of a first run.
InitRun ==
  /\ pc = [r \in Replicas |-> "rmOut"]
  /\ status = [r \in Replicas |-> "running"]
  /\ runs = [r \in Replicas |-> IF r \in active THEN 1 ELSE 0]
  /\ failed = [r \in Replicas |-> {}]
  /\ linked = [r \in Replicas |-> {}]
  /\ launched = [r \in Replicas |-> 0]
  /\ initVia = [r \in Replicas |-> "none"]
  /\ ranCopy = [r \in Replicas |-> FALSE]
  /\ copied = [r \in Replicas |-> FALSE]
  /\ startDb = [r \in Replicas |-> volDb]
  /\ startMnt = [r \in Replicas |-> Mounts]
  /\ prevFs = [r \in Replicas |-> << >>]
  /\ dbWriters = {}
  /\ dbLinkedBy = {r \in Replicas : locDb[r] = "link"}
  /\ overwroteLinked = FALSE

InitNoDownload ==
  /\ dlCalls = 0
  /\ dlReq = "none"
  /\ dlResult = "none"
  /\ dlDst = "absent"
  /\ dlDstParent = FALSE
  /\ dlDstData = "none"

\* The volumes as a container can find them.
InitVolume ==
  /\ mntOut \in BOOLEAN
  /\ mntCache \in BOOLEAN
  /\ outDirs \in (IF mntOut THEN StartDirSets ELSE {{}})
  /\ volDb \in (IF db_dir \in outDirs THEN {"none", "user"} ELSE {"none"})
  /\ outNested = FALSE
  /\ cacheNested = FALSE
  /\ perm777 = {}

\* One container; any starting state of its three local paths.
Init ==
  /\ active = {"r1"}
  /\ InitVolume
  /\ \E o \in StartKinds, c \in StartKinds, d \in StartDbKinds, j \in BOOLEAN :
       /\ locOut = [r \in Replicas |-> IF r \in active THEN o ELSE "absent"]
       /\ locCache = [r \in Replicas |-> IF r \in active THEN c ELSE "absent"]
       /\ locDb = [r \in Replicas |-> IF r \in active THEN d ELSE "absent"]
       /\ locDbData = [r \in Replicas |->
                         IF r \in active /\ d = "file" THEN "image" ELSE "none"]
       /\ locJournal = [r \in Replicas |-> r \in active /\ j]
  /\ InitRun
  /\ InitNoDownload

Next == \E r \in Replicas : ui_server(r) \/ Rerun(r)

Spec == Init /\ [][Next]_vars

\* Two containers started from the same image against one mounted volume.
InitConc ==
  /\ active = Replicas
  /\ InitVolume
  /\ mntOut /\ mntCache
  /\ \E o \in {"absent", "dir"} :
       /\ locOut = [r \in Replicas |-> o]
       /\ locCache = [r \in Replicas |-> o]
  /\ locDb = [r \in Replicas |-> "file"]
  /\ locDbData = [r \in Replicas |-> "image"]
  /\ locJournal = [r \in Replicas |-> FALSE]
  /\ InitRun
  /\ InitNoDownload

NextConc == \E r \in Replicas : ui_server(r)

SpecConc == InitConc /\ [][NextConc]_vars

\* download_files called against any state of the volume.
InitDl ==
  /\ active = {}
  /\ mntOut \in BOOLEAN
  /\ mntCache = TRUE
  /\ outDirs \in (IF mntOut THEN SUBSET (OutputSubdirs \cup {db_dir}) ELSE {{}})
  /\ volDb \in (IF db_dir \in outDirs THEN {"none"} \cup Contents ELSE {"none"})
  /\ outNested = FALSE
  /\ cacheNested = FALSE
  /\ perm777 = {}
  /\ locOut = [r \in Replicas |-> "absent"]
  /\ locCache = [r \in Replicas |-> "absent"]
  /\ locDb = [r \in Replicas |-> "absent"]
  /\ locDbData = [r \in Replicas |-> "none"]
  /\ locJournal = [r \in Replicas |-> FALSE]
  /\ InitRun
  /\ dlCalls = 0
  /\ dlReq = "none"
  /\ dlResult = "none"
  /\ dlDst \in {"absent", "file", "dir"}
  /\ dlDstParent \in (IF dlDst = "absent" THEN BOOLEAN ELSE {TRUE})
  /\ dlDstData = (IF dlDst = "absent" THEN "none" ELSE "old")

NextDl == \E rp \in RemotePaths : download_files(rp)

SpecDl == InitDl /\ [][NextDl]_vars

\* ------------------------------------------------------------ invariant
TypeOK ==
  /\ active \subseteq Replicas
  /\ pc \in [Replicas -> StepNames]
  /\ status \in [Replicas -> {"running", "aborted", "done"}]
  /\ runs \in [Replicas -> 0..MaxRuns]
  /\ failed \in [Replicas -> SUBSET FailureClasses]
  /\ linked \in [Replicas -> SUBSET {"out", "cache", "db"}]
  /\ launched \in [Replicas -> 0..1]
  /\ initVia \in [Replicas -> InitVias]
  /\ ranCopy \in [Replicas -> BOOLEAN]
  /\ copied \in [Replicas -> BOOLEAN]
  /\ startDb \in [Replicas -> {"none"} \cup Contents]
  /\ locOut \in [Replicas -> Kinds]
  /\ locCache \in [Replicas -> Kinds]
  /\ locDb \in [Replicas -> {"absent", "file", "link"}]
  /\ locDbData \in [Replicas -> {"none"} \cup Contents]
  /\ \A r \in Replicas : (locDb[r] = "file") <=> (locDbData[r] # "none")
  /\ locJournal \in [Replicas -> BOOLEAN]
  /\ mntOut \in BOOLEAN /\ mntCache \in BOOLEAN
  /\ outDirs \subseteq OutputSubdirs \cup {db_dir}
  /\ (outDirs # {} => mntOut) /\ (volDb # "none" => db_dir \in outDirs)
  /\ outNested \in BOOLEAN /\ cacheNested \in BOOLEAN
  /\ perm777 \subseteq PermObjects
  /\ volDb \in {"none"} \cup Contents
  /\ dbWriters \subseteq Replicas /\ dbLinkedBy \subseteq Replicas
  /\ overwroteLinked \in BOOLEAN
  /\ dlCalls \in 0..MaxDownloads
  /\ dlReq \in {"none"} \cup RemotePaths
  /\ dlResult \in {"none", "FileNotFoundError", "FileExistsError",
                   "directory", "file"}
  /\ dlDst \in {"absent", "file", "dir"}
  /\ dlDstParent \in BOOLEAN
  /\ dlDst # "absent" => dlDstParent
  /\ dlDstData \in {"none", "old", "tree"} \cup Contents

\* ---------------------------------------------------------------- claims
AllLinks == {"out", "cache", "db"}
LinkSteps == {"lnOut", "lnCache", "lnDb"}
StartMissing(r) == ~startMnt[r].mntOut \/ ~startMnt[r].mntCache

\* C1: whenever a run reaches the server launch, each of the three local
\* paths is itself a symbolic link into the volume, whatever the starting
\* state and whatever tolerated step failed.
C1_LinksAtLaunch ==
  \A r \in active :
    status[r] = "done" =>
      locOut[r] = "link" /\ locCache[r] = "link" /\ locDb[r] = "link"

C3_Original ==
  \A r \in active :
    (status[r] = "done" /\ startDb[r] = "none")
      => (volDb # "none" /\ locDb[r] = "link")

\* C3 amended: the durable database is absent before a run, the run reaches
\* the launch and its copy into the volume succeeded => the database exists
\* in the volume and the local path is a link to it.
C3_Amended ==
  \A r \in active :
    (status[r] = "done" /\ startDb[r] = "none" /\ copied[r])
      => (volDb # "none" /\ locDb[r] = "link" /\ "db" \in linked[r])

C3_Witness ==
  /\ status["r1"] = "done" /\ startDb["r1"] = "none" /\ copied["r1"]
  /\ volDb = "fresh" /\ locDb["r1"] = "link"

\* C4: the durable database exists before a run => the run executes neither
\* the initialisation nor the copy and the durable content stays what it was.
C4_ExistingDbKept ==
  \A r \in active :
    startDb[r] # "none"
      => (initVia[r] = "none" /\ ~ranCopy[r] /\ volDb = startDb[r])

C4_Witness ==
  /\ status["r1"] = "done" /\ startDb["r1"] = "user" /\ volDb = "user"
  /\ locDb["r1"] = "link"

C6_NotFoundNoMutation ==
  [][ (dlCalls' # dlCalls /\ SrcKind(dlReq') = "absent")
        => /\ dlResult' = "FileNotFoundError"
           /\ UNCHANGED << dlDst, dlDstParent, dlDstData, volVars, locVars >>
    ]_vars

C6_Witness ==
  /\ dlCalls > 0 /\ dlResult = "FileNotFoundError"
  /\ SrcKind(dlReq) = "absent"
  /\ dlDst = "absent" /\ ~dlDstParent

\* C7: in a run the server is launched at most once, only after the three
\* link commands of that run succeeded; a failed link command aborts the run
\* before any launch.
C7_LaunchAfterLinks ==
  \A r \in active :
    /\ launched[r] <= 1
    /\ launched[r] = 1 => linked[r] = AllLinks
    /\ "ln" \in failed[r] => (status[r] = "aborted" /\ launched[r] = 0)

C7_Witness ==
  /\ launched["r1"] = 1 /\ status["r1"] = "done" /\ linked["r1"] = AllLinks

\* C8: a failing removal, chmod, initialisation or copy never stops the run:
\* a run is only ever aborted at a link command, a running replica always
\* has a next step, and a run whose link commands all succeed launches.
C8_ToleratedNeverAbort ==
  \A r \in active :
    /\ status[r] = "aborted" => (pc[r] \in LinkSteps /\ "ln" \in failed[r])
    /\ status[r] = "running" => ENABLED ui_server(r)
    /\ status[r] = "done" => launched[r] = 1
    /\ linked[r] = AllLinks => status[r] # "aborted"

C8_Witness ==
  /\ status["r1"] = "done" /\ launched["r1"] = 1
  /\ failed["r1"] = {"rm", "chmod", "init", "cp"}

\* C9: the initialisation runs while the local path is not a link and never
\* writes through a link into the volume; the copy comes after the
\* initialisation and the database link after the copy.
C9_InitLocalThenCopyThenLink ==
  \A r \in active :
    /\ initVia[r] \in {"none", "local"}
    /\ ranCopy[r] => initVia[r] # "none"
    /\ (startDb[r] = "none" /\ "db" \in linked[r]) => ranCopy[r]

\* C10: nothing orders the initialisation of two replicas: a copy that
\* succeeds installs the copier's file as the durable database whatever is
\* there by then, so two replicas that both saw it absent both write it.
C10_NoMutualExclusion ==
  [][ \A r \in Replicas :
        (copied'[r] /\ ~copied[r]) => volDb' = locDbData[r] ]_vars

C10_Witness ==
  /\ dbWriters = Replicas
  /\ overwroteLinked
  /\ \A r \in Replicas : copied[r] /\ startDb[r] = "none"

====
